---- MODULE Spec2Model ----
(***************************************************************************)
(* State-machine model of twitterOLLAMA.py: the Operation Dispatcher       *)
(* (StructuredTwitterAPI.execute with its identifier cache), the           *)
(* Natural-Language Translator (process_nlp_request), the Conversation     *)
(* Context (ConversationContext) and the loop of interactive_session.      *)
(*                                                                         *)
(* Python values are represented as follows.                               *)
(*   None            the empty tuple  <<>>                                 *)
(*   an Optional x   <<>> or <<x>>                                         *)
(*   a str that the code inspects (a username)                             *)
(*                   a tuple of one-character strings                      *)
(*   a params value  [t |-> <type name>, v |-> <tuple of characters>]      *)
(*   a dict          a function whose DOMAIN is the dict's key set         *)
(***************************************************************************)
EXTENDS Integers, Sequences, FiniteSets, TLC

VARIABLES
    user_id_cache,   \* StructuredTwitterAPI.user_id_cache: lowercased username -> id
    request,         \* the TwitterRequest of the latest execute call (None before any)
    result,          \* what operation_map[operation](params) returned in that call
    response,        \* the TwitterResponse that call returned
    api_calls,       \* the self.api.* calls that call made, in order, with their outcome
    messages,        \* ConversationContext.messages
    last_response,   \* ConversationContext.last_response
    clock,           \* the wall clock read by datetime.now()
    tr,              \* the frame of the latest process_nlp_request call
    session          \* where interactive_session stands in its loop

dispatcher == <<user_id_cache, request, result, response, api_calls>>
context    == <<messages, last_response, clock>>
vars       == <<user_id_cache, request, result, response, api_calls,
                messages, last_response, clock, tr, session>>

None == <<>>
Some(x) == <<x>>

(***************************************************************************)
(* Bounds of the model.                                                    *)
(***************************************************************************)
MaxTurns == 3          \* longest conversation history explored
MaxRetriesArg == 3     \* largest max_retries argument explored (0..MaxRetriesArg)
MaxClock == 1          \* the clock takes the values 0..MaxClock

(***************************************************************************)
(* Strings the code inspects character by character.                       *)
(***************************************************************************)
LowerChar(c) == CASE c = "A" -> "a"
                  [] c = "B" -> "b"
                  [] OTHER -> c

\* str.lower()
Lower(s) == [i \in 1..Len(s) |-> LowerChar(s[i])]

StrVal(s) == [t |-> "str", v |-> s]
IntVal(s) == [t |-> "int", v |-> s]

\* Python truthiness of a params value: '' and 0 are falsy.
Truthy(x) == IF x.t = "str" THEN x.v # <<>> ELSE x.v # <<"0">>

\* Values the 'username' parameter takes: '', 'ab', 'Ab', 'b', and the int 7.
UsernameValues == {StrVal(<<>>), StrVal(<<"a", "b">>), StrVal(<<"A", "b">>), StrVal(<<"b">>),
                   IntVal(<<"7">>)}

\* Values of the other parameters (opaque to the dispatcher).
LimitValues == {5}
TextValues == {"hello"}
TweetIdValues == {"t1"}

(***************************************************************************)
(* The external API client, twitterCLI.TwitterAPI: each function returns a *)
(* mapping that either holds an 'error' key or is a success payload, or    *)
(* raises.                                                                 *)
(***************************************************************************)
UserIds == {"", "44"}
ErrorValues == {"not found"}
ExceptionMessages == {"timeout"}

\* Mappings get_user_info returns.
UserMappings ==
    {[error |-> e] : e \in ErrorValues}
    \cup {[data |-> [id |-> i]] : i \in UserIds}
    \cup {[data |-> [name |-> "n"]], [meta |-> "m"]}
    \cup {[error |-> "not found", data |-> [id |-> "44"]]}

\* Mappings the other API functions return.
OtherMappings ==
    {[error |-> e] : e \in ErrorValues} \cup {[data |-> [text |-> "hello"]]}

Outcomes(mappings) ==
    {[raised |-> FALSE, value |-> m] : m \in mappings}
    \cup {[raised |-> TRUE, msg |-> e] : e \in ExceptionMessages}

UserOutcomes == Outcomes(UserMappings)
OtherOutcomes == Outcomes(OtherMappings)

(***************************************************************************)
(* TwitterRequest: the operation names and the params mappings explored.   *)
(***************************************************************************)
Operations == {"user", "tweets", "search", "post", "like", "unlike", "timeline", "delete"}
OtherOperations == {"retweet", "User"}

EmptyDict == [k \in {} |-> None]

ParamsFor(op) ==
    CASE op \in {"user"} \cup OtherOperations ->
            {EmptyDict} \cup {[username |-> u] : u \in UsernameValues}
      [] op = "tweets" ->
            {EmptyDict} \cup {[username |-> u] : u \in UsernameValues}
            \cup {[limit |-> l] : l \in LimitValues}
            \cup {[username |-> u, limit |-> l] : u \in UsernameValues, l \in LimitValues}
      [] op = "search" ->
            {EmptyDict} \cup {[query |-> q] : q \in TextValues}
            \cup {[query |-> q, limit |-> l] : q \in TextValues, l \in LimitValues}
      [] op = "post" ->
            {EmptyDict} \cup {[text |-> x] : x \in TextValues}
            \cup {[text |-> x, reply_to_id |-> i] : x \in TextValues, i \in TweetIdValues}
            \cup {[media_path |-> "a.png"]}
      [] op \in {"like", "unlike", "delete"} ->
            {EmptyDict} \cup {[tweet_id |-> i] : i \in TweetIdValues}
      [] op = "timeline" ->
            {EmptyDict} \cup {[limit |-> l] : l \in LimitValues}

\* dict.get(key, default)
Get(d, key, default) == IF key \in DOMAIN d THEN d[key] ELSE default

\* dict.get(key), as an Optional
GetOpt(d, key) == IF key \in DOMAIN d THEN Some(d[key]) ELSE None

\* d[key] = value
Put(d, key, value) == [k \in DOMAIN d \cup {key} |-> IF k = key THEN value ELSE d[k]]

DefaultLimit == 10
DefaultTimelineLimit == 20

\* str(KeyError(key))
KeyErrorMsg(key) == "'" \o key \o "'"

\* str(AttributeError) of x.lower() on an int
NoLowerMsg == "'int' object has no attribute 'lower'"

(***************************************************************************)
(* Evaluation of a handler of operation_map: it returns a mapping or       *)
(* raises, having made some API calls and possibly written the cache.      *)
(***************************************************************************)
Returned(value, calls, cache) ==
    [raised |-> FALSE, value |-> Some(value), msg |-> "", calls |-> calls, cache |-> cache]

Raised(msg, calls, cache) ==
    [raised |-> TRUE, value |-> None, msg |-> msg, calls |-> calls, cache |-> cache]

ApiCall(fn, args, out) == [fn |-> fn, args |-> args, out |-> out]

\* A handler whose last step is `return self.api.<fn>(*args)`, after `calls`.
ReturnCall(fn, args, out, calls, cache) ==
    IF out.raised
    THEN Raised(out.msg, Append(calls, ApiCall(fn, args, out)), cache)
    ELSE Returned(out.value, Append(calls, ApiCall(fn, args, out)), cache)

\* lambda p: self.api.<fn>(p.get(key)): a missing key reaches the API as None.
KeyedCallGet(fn, key, p, out, cache) ==
    ReturnCall(fn, <<GetOpt(p, key)>>, out, <<>>, cache)

\* lambda p: self.api.<fn>(p[key])
KeyedCall(fn, key, p, out, cache) ==
    IF key \notin DOMAIN p
    THEN Raised(KeyErrorMsg(key), <<>>, cache)
    ELSE ReturnCall(fn, <<p[key]>>, out, <<>>, cache)

\* The cache read of _handle_tweets: `if not user_id` after user_id_cache.get(username).
CacheMiss(cache, username) == username \notin DOMAIN cache \/ cache[username] = ""

\* _handle_tweets without the `if 'error' in user_result` test.
handle_tweets_unchecked(params, cache, o_user, o_tweets) ==
    IF "username" \notin DOMAIN params THEN Raised(KeyErrorMsg("username"), <<>>, cache)
    ELSE IF params.username.t # "str" THEN Raised(NoLowerMsg, <<>>, cache)
    ELSE
      LET username == Lower(params.username.v)
          limit == Get(params, "limit", DefaultLimit)
          lookup == ApiCall("get_user_info", <<StrVal(username)>>, o_user)
      IN  IF CacheMiss(cache, username)
          THEN IF o_user.raised THEN Raised(o_user.msg, <<lookup>>, cache)
               ELSE LET user_result == o_user.value IN
                    IF "data" \notin DOMAIN user_result
                    THEN Raised(KeyErrorMsg("data"), <<lookup>>, cache)
                    ELSE IF "id" \notin DOMAIN user_result.data
                    THEN Raised(KeyErrorMsg("id"), <<lookup>>, cache)
                    ELSE LET user_id == user_result.data.id IN
                         ReturnCall("get_user_tweets", <<user_id, limit>>, o_tweets,
                                    <<lookup>>, Put(cache, username, user_id))
          ELSE ReturnCall("get_user_tweets", <<cache[username], limit>>, o_tweets,
                          <<>>, cache)

\* StructuredTwitterAPI._handle_tweets
handle_tweets(params, cache, o_user, o_tweets) ==
    IF "username" \notin DOMAIN params THEN Raised(KeyErrorMsg("username"), <<>>, cache)
    ELSE IF params.username.t # "str" THEN Raised(NoLowerMsg, <<>>, cache)
    ELSE
      LET username == Lower(params.username.v)
          limit == Get(params, "limit", DefaultLimit)
          lookup == ApiCall("get_user_info", <<StrVal(username)>>, o_user)
      IN  IF CacheMiss(cache, username)
          THEN IF o_user.raised THEN Raised(o_user.msg, <<lookup>>, cache)
               ELSE LET user_result == o_user.value IN
                    IF "error" \in DOMAIN user_result
                    THEN Returned(user_result, <<lookup>>, cache)
                    ELSE IF "data" \notin DOMAIN user_result
                    THEN Raised(KeyErrorMsg("data"), <<lookup>>, cache)
                    ELSE IF "id" \notin DOMAIN user_result.data
                    THEN Raised(KeyErrorMsg("id"), <<lookup>>, cache)
                    ELSE LET user_id == user_result.data.id IN
                         ReturnCall("get_user_tweets", <<user_id, limit>>, o_tweets,
                                    <<lookup>>, Put(cache, username, user_id))
          ELSE ReturnCall("get_user_tweets", <<cache[username], limit>>, o_tweets,
                          <<>>, cache)

\* operation_map[request.operation](request.params)
Handler(op, p, cache, o_user, o_tweets) ==
    CASE op = "user" -> KeyedCall("get_user_info", "username", p, o_user, cache)
      [] op = "tweets" -> handle_tweets(p, cache, o_user, o_tweets)
      [] op = "search" ->
            IF "query" \notin DOMAIN p THEN Raised(KeyErrorMsg("query"), <<>>, cache)
            ELSE ReturnCall("search_tweets", <<p.query, Get(p, "limit", DefaultLimit)>>,
                            o_user, <<>>, cache)
      [] op = "post" ->
            IF "text" \notin DOMAIN p THEN Raised(KeyErrorMsg("text"), <<>>, cache)
            ELSE ReturnCall("create_tweet",
                            <<p.text, GetOpt(p, "media_path"), GetOpt(p, "reply_to_id")>>,
                            o_user, <<>>, cache)
      [] op = "like" -> KeyedCall("like_tweet", "tweet_id", p, o_user, cache)
      [] op = "unlike" -> KeyedCall("unlike_tweet", "tweet_id", p, o_user, cache)
      [] op = "timeline" ->
            ReturnCall("get_home_timeline", <<Get(p, "limit", DefaultTimelineLimit)>>,
                       o_user, <<>>, cache)
      [] op = "delete" -> KeyedCall("delete_tweet", "tweet_id", p, o_user, cache)

\* TwitterResponse(success=..., data=..., error=...)
TwitterResponse(success, data, error) == [success |-> success, data |-> data, error |-> error]

\* The error text without the operation name.
UnsupportedMsgNoName(op) == "Unsupported operation"

\* f"Unsupported operation: {request.operation}"
UnsupportedMsg(op) == "Unsupported operation: " \o op

\* The return statement with data=result whatever the result holds.
NormalizeKeepsData(res) ==
    TwitterResponse("error" \notin DOMAIN res, Some(res), GetOpt(res, "error"))

\* The return statement of execute: the result mapping normalized.
Normalize(res) ==
    TwitterResponse("error" \notin DOMAIN res,
                    IF "error" \notin DOMAIN res THEN Some(res) ELSE None,
                    GetOpt(res, "error"))

\* The guard of the cache write of execute without `'error' not in result`.
CachesUserDespiteError(op, p, res) ==
    /\ op = "user" /\ "data" \in DOMAIN res
    /\ Truthy(p.username) /\ "id" \in DOMAIN res.data

\* The guard of the cache write of execute, for a 'user' request.
CachesUser(op, p, res) ==
    /\ op = "user" /\ "error" \notin DOMAIN res /\ "data" \in DOMAIN res
    /\ Truthy(p.username) /\ "id" \in DOMAIN res.data

\* self.user_id_cache[username.lower()] = result['data']['id'], without lower().
CacheUserAsTyped(cache, username, id) == Put(cache, username, id)

\* self.user_id_cache[username.lower()] = result['data']['id']
CacheUser(cache, username, id) == Put(cache, Lower(username), id)

\* The try block of execute: it returns a TwitterResponse or raises.
try_block(cache, op, p, o_user, o_tweets) ==
    IF op \notin Operations
    THEN [raised |-> FALSE, msg |-> "",
          response |-> TwitterResponse(FALSE, None, Some(UnsupportedMsg(op))),
          result |-> None, calls |-> <<>>, cache |-> cache]
    ELSE LET h == Handler(op, p, cache, o_user, o_tweets) IN
         IF h.raised
         THEN [raised |-> TRUE, msg |-> h.msg, response |-> None,
               result |-> None, calls |-> h.calls, cache |-> h.cache]
         ELSE LET res == h.value[1] IN
              IF CachesUser(op, p, res)
              THEN IF p.username.t # "str"
                   THEN [raised |-> TRUE, msg |-> NoLowerMsg, response |-> None,
                         result |-> h.value, calls |-> h.calls, cache |-> h.cache]
                   ELSE [raised |-> FALSE, msg |-> "", response |-> Normalize(res),
                         result |-> h.value, calls |-> h.calls,
                         cache |-> CacheUser(h.cache, p.username.v, res.data.id)]
              ELSE [raised |-> FALSE, msg |-> "", response |-> Normalize(res),
                    result |-> h.value, calls |-> h.calls, cache |-> h.cache]

\* execute with its `except Exception` clause removed: the exception leaves execute.
execute_uncaught(cache, op, p, o_user, o_tweets) ==
    LET t == try_block(cache, op, p, o_user, o_tweets) IN
    [response |-> IF t.raised THEN None ELSE Some(t.response),
     result |-> t.result, calls |-> t.calls, cache |-> t.cache]

\* StructuredTwitterAPI.execute: the TwitterResponse returned (None would be an
\* exception leaving execute), the handler's result, the API calls made and the
\* cache afterwards.
execute(cache, op, p, o_user, o_tweets) ==
    LET t == try_block(cache, op, p, o_user, o_tweets) IN
    [response |-> IF t.raised THEN Some(TwitterResponse(FALSE, None, Some(t.msg)))
                  ELSE Some(t.response),
     result |-> t.result, calls |-> t.calls, cache |-> t.cache]

\* One call of execute, with the outcome of each API call it may make.
Execute(op, p, o_user, o_tweets) ==
    LET x == execute(user_id_cache, op, p, o_user, o_tweets) IN
    /\ user_id_cache' = x.cache
    /\ request' = Some([operation |-> op, params |-> p])
    /\ result' = x.result
    /\ response' = x.response
    /\ api_calls' = x.calls
    /\ UNCHANGED <<messages, last_response, clock, tr, session>>

ExecuteAny ==
    \E op \in Operations \cup OtherOperations : \E p \in ParamsFor(op) :
        \E o_user \in (IF op \in {"user", "tweets"} THEN UserOutcomes ELSE OtherOutcomes) :
            \E o_tweets \in (IF op = "tweets" THEN OtherOutcomes ELSE {o_user}) :
                Execute(op, p, o_user, o_tweets)

\* interactive_session about to read its first line: no line read, no query
\* ended yet.
SessionStart == [pc |-> "input", line |-> <<>>, last |-> "none"]

\* The frame of process_nlp_request before any call.
IdleFrame ==
    [pc |-> "idle", query |-> "", max_retries |-> 0, attempt |-> 0, messages |-> <<>>,
     log |-> <<>>, outcome |-> None, context |-> [messages |-> <<>>, last_response |-> None]]

Init ==
    /\ user_id_cache = [k \in {} |-> ""]
    /\ request = None
    /\ result = None
    /\ response = None
    /\ api_calls = <<>>
    /\ messages = <<>>
    /\ last_response = None
    /\ clock = 0
    /\ tr = IdleFrame
    /\ session = SessionStart

DispatcherSpec == Init /\ [][ExecuteAny]_vars

(***************************************************************************)
(* ConversationContext.                                                    *)
(***************************************************************************)
UserTexts == {"get user ab"}
AssistantTexts == {"Successfully executed user operation."}
ApiResponses == {None, Some([data |-> [id |-> "44"]])}

Digit(d) == CASE d = 0 -> "0" [] d = 1 -> "1" [] d = 2 -> "2" [] d = 3 -> "3"
              [] d = 4 -> "4" [] d = 5 -> "5" [] d = 6 -> "6" [] d = 7 -> "7"
              [] d = 8 -> "8" [] d = 9 -> "9"

RECURSIVE IntToStr(_)
\* str(n) of a natural number, as an f-string renders it
IntToStr(n) == IF n < 10 THEN Digit(n) ELSE IntToStr(n \div 10) \o Digit(n % 10)

\* datetime.isoformat() of the instant t seconds after the session started
IsoFormat(t) == "2024-01-01T00:00:" \o (IF t < 10 THEN "0" ELSE "") \o IntToStr(t)

\* process_nlp_request has been called and has neither returned nor raised.
TranslateInFlight == tr.pc \in {"attempt", "sleep"}

\* add_user_message that puts the turn first instead of last.
AddUserMessageFront(message) ==
    /\ ~TranslateInFlight
    /\ Len(messages) < MaxTurns
    /\ \E now \in clock..MaxClock :
          /\ clock' = now
          /\ messages' = <<[role |-> "user", content |-> message,
                            timestamp |-> IsoFormat(now)]>> \o messages
    /\ UNCHANGED <<last_response, tr, dispatcher, session>>

\* ConversationContext.add_user_message
AddUserMessage(message) ==
    /\ ~TranslateInFlight
    /\ Len(messages) < MaxTurns
    /\ \E now \in clock..MaxClock :
          /\ clock' = now
          /\ messages' = Append(messages, [role |-> "user", content |-> message,
                                           timestamp |-> IsoFormat(now)])
    /\ UNCHANGED <<last_response, tr, dispatcher, session>>

\* add_assistant_message that overwrites last_response only when given one.
AddAssistantMessageKeeps(message, api_response) ==
    /\ ~TranslateInFlight
    /\ Len(messages) < MaxTurns
    /\ \E now \in clock..MaxClock :
          /\ clock' = now
          /\ messages' = Append(messages, [role |-> "assistant", content |-> message,
                                           api_response |-> api_response,
                                           timestamp |-> IsoFormat(now)])
    /\ last_response' = IF api_response # None THEN api_response ELSE last_response
    /\ UNCHANGED <<tr, dispatcher, session>>

\* ConversationContext.add_assistant_message
AddAssistantMessage(message, api_response) ==
    /\ ~TranslateInFlight
    /\ Len(messages) < MaxTurns
    /\ \E now \in clock..MaxClock :
          /\ clock' = now
          /\ messages' = Append(messages, [role |-> "assistant", content |-> message,
                                           api_response |-> api_response,
                                           timestamp |-> IsoFormat(now)])
    /\ last_response' = api_response
    /\ UNCHANGED <<tr, dispatcher, session>>

AddUserMessageAny == \E message \in UserTexts : AddUserMessage(message)

AddAssistantMessageAny ==
    \E message \in AssistantTexts : \E api_response \in ApiResponses :
        AddAssistantMessage(message, api_response)

ContextNext == AddUserMessageAny \/ AddAssistantMessageAny

ContextSpec == Init /\ [][ContextNext]_vars

(***************************************************************************)
(* process_nlp_request and the model service, ollama.chat.                 *)
(***************************************************************************)
Queries == {"get user ab"}

\* The texts the model service puts in response.message.content.
ReplyTexts == {"", "not json", "{\"operation\": \"user\"}",
               "{\"operation\": \"user\", \"params\": {\"username\": \"ab\"}}",
               "{\"operation\": \"retweet\", \"params\": {}}"}

\* What chat() does: it raises, or returns None, an object without a message
\* attribute, or an object with message.content.
ChatReplies ==
    {[raised |-> TRUE, msg |-> "connection refused"]}
    \cup {[raised |-> FALSE, response |-> None]}
    \cup {[raised |-> FALSE, response |-> Some([done |-> TRUE])]}
    \cup {[raised |-> FALSE, response |-> Some([message |-> [content |-> c]])] :
             c \in ReplyTexts}

JsonDecodeErrorMsg == "Expecting value: line 1 column 1 (char 0)"
ValidationErrorMsg == "1 validation error for TwitterRequest"

\* json.loads(text): the value parsed, or the JSONDecodeError raised.
JsonLoads(text) ==
    CASE text = "{\"operation\": \"user\"}" ->
            [ok |-> TRUE, value |-> [operation |-> "user"]]
      [] text = "{\"operation\": \"user\", \"params\": {\"username\": \"ab\"}}" ->
            [ok |-> TRUE,
             value |-> [operation |-> "user", params |-> [username |-> StrVal(<<"a", "b">>)]]]
      [] text = "{\"operation\": \"retweet\", \"params\": {}}" ->
            [ok |-> TRUE, value |-> [operation |-> "retweet", params |-> EmptyDict]]
      [] OTHER -> [ok |-> FALSE, msg |-> JsonDecodeErrorMsg]

\* TwitterRequest(**request_data): both fields are required.
NewTwitterRequest(request_data) ==
    IF {"operation", "params"} \subseteq DOMAIN request_data
    THEN [ok |-> TRUE, request |-> [operation |-> request_data.operation,
                                    params |-> request_data.params]]
    ELSE [ok |-> FALSE, msg |-> ValidationErrorMsg]

\* The body of the outer try of one attempt: the TwitterRequest returned, or
\* the message of the exception caught by `except Exception as e`.
TryAttempt(reply) ==
    IF reply.raised THEN [ok |-> FALSE, msg |-> reply.msg]
    ELSE IF \/ reply.response = None
            \/ "message" \notin DOMAIN reply.response[1]
            \/ reply.response[1].message.content = ""
    THEN [ok |-> FALSE, msg |-> "Invalid response format from Ollama"]
    ELSE LET parsed == JsonLoads(reply.response[1].message.content) IN
         IF ~parsed.ok
         THEN [ok |-> FALSE, msg |-> "Failed to parse JSON response: " \o parsed.msg]
         ELSE NewTwitterRequest(parsed.value)

SystemContext ==
    [role |-> "system", content |-> "You are a Twitter API request converter."]

\* The message that carries the current query.
QueryMessage(query) ==
    [role |-> "user",
     content |-> "Convert this query to a Twitter API request (considering previous context if relevant): "
                 \o query]

\* The message list built with the query before the conversation history.
BuildMessagesQueryFirst(history, query) ==
    <<SystemContext, QueryMessage(query)>> \o history

\* messages = [system_context] + context.messages; messages.append({...})
BuildMessages(history, query) == Append(<<SystemContext>> \o history, QueryMessage(query))

\* str(RuntimeError) raised after the last attempt
FailedMsg(max_retries, msg) ==
    "Failed to process NLP request after " \o IntToStr(max_retries) \o " attempts: " \o msg

\* How a call of process_nlp_request ended.
ReturnValue(value) == Some([kind |-> "return", value |-> value])
RaiseError(type, msg) == Some([kind |-> "raise", type |-> type, msg |-> msg])

\* The frame of a call that has just built its messages from a context
\* holding `history` and `last`.
CallFrame(query, max_retries, history, last) ==
    [pc |-> IF max_retries > 0 THEN "attempt" ELSE "done",
     query |-> query, max_retries |-> max_retries, attempt |-> 0,
     messages |-> BuildMessages(history, query),
     log |-> <<>>,
     outcome |-> IF max_retries > 0 THEN None ELSE ReturnValue(None),
     context |-> [messages |-> history, last_response |-> last]]

\* The frame of a call made on the context as it stands.
NewFrame(query, max_retries) == CallFrame(query, max_retries, messages, last_response)

\* process_nlp_request building its message list in place, on context.messages.
TranslateCallInPlace(query, max_retries) ==
    /\ ~TranslateInFlight
    /\ tr' = NewFrame(query, max_retries)
    /\ messages' = BuildMessages(messages, query)
    /\ UNCHANGED <<last_response, clock, dispatcher, session>>

\* process_nlp_request is called: lines 127-151, up to the loop. With
\* max_retries <= 0 the loop body never runs and the function ends there,
\* returning None.
TranslateCall(query, max_retries) ==
    /\ ~TranslateInFlight
    /\ tr' = NewFrame(query, max_retries)
    /\ UNCHANGED <<messages, last_response, clock, dispatcher, session>>

\* The loop with the sleep placed before the test of the last attempt: the
\* call also waits after its final failed attempt, then raises.
TranslateAttemptSleepsFirst(reply) ==
    /\ tr.pc = "attempt"
    /\ LET t == TryAttempt(reply)
           log == Append(tr.log, [ev |-> "chat", messages |-> tr.messages, valid |-> t.ok])
       IN  tr' = IF t.ok
                 THEN [tr EXCEPT !.pc = "done", !.log = log,
                                 !.outcome = ReturnValue(Some(t.request))]
                 ELSE IF tr.attempt = tr.max_retries - 1
                 THEN [tr EXCEPT !.pc = "done",
                                 !.log = Append(log, [ev |-> "sleep", seconds |-> 1]),
                                 !.outcome = RaiseError("RuntimeError",
                                                        FailedMsg(tr.max_retries, t.msg))]
                 ELSE [tr EXCEPT !.pc = "sleep", !.log = log]
    /\ UNCHANGED <<context, dispatcher, session>>

\* One iteration of the loop up to its return, its raise or its sleep.
TranslateAttempt(reply) ==
    /\ tr.pc = "attempt"
    /\ LET t == TryAttempt(reply)
           log == Append(tr.log, [ev |-> "chat", messages |-> tr.messages, valid |-> t.ok])
       IN  tr' = IF t.ok
                 THEN [tr EXCEPT !.pc = "done", !.log = log,
                                 !.outcome = ReturnValue(Some(t.request))]
                 ELSE IF tr.attempt = tr.max_retries - 1
                 THEN [tr EXCEPT !.pc = "done", !.log = log,
                                 !.outcome = RaiseError("RuntimeError",
                                                        FailedMsg(tr.max_retries, t.msg))]
                 ELSE [tr EXCEPT !.pc = "sleep", !.log = log]
    /\ UNCHANGED <<context, dispatcher, session>>

\* await asyncio.sleep(1) completes and the loop goes to its next iteration.
TranslateSleep ==
    /\ tr.pc = "sleep"
    /\ tr' = [tr EXCEPT !.pc = "attempt", !.attempt = @ + 1,
                        !.log = Append(@, [ev |-> "sleep", seconds |-> 1])]
    /\ UNCHANGED <<context, dispatcher, session>>

TranslateCallAny ==
    \E query \in Queries : \E max_retries \in 0..MaxRetriesArg :
        TranslateCall(query, max_retries)

TranslateAttemptAny == \E reply \in ChatReplies : TranslateAttempt(reply)

TranslateNext == TranslateCallAny \/ TranslateAttemptAny \/ TranslateSleep

TranslatorSpec == Init /\ [][TranslateNext \/ ContextNext]_vars

(***************************************************************************)
(* interactive_session: the loop that reads a line, translates it,         *)
(* executes the request and records the turns.  Its print calls are not    *)
(* modelled, and the emoji that open its message texts are left out.       *)
(***************************************************************************)
MaxSessionTurns == 4     \* longest conversation history a session builds
DefaultMaxRetries == 3   \* max_retries of process_nlp_request when not passed

\* The lines input() returns: 'ab', ' Bye ', 'exit', 'quit'.
InputLines == {<<"a", "b">>, <<" ", "B", "y", "e", " ">>,
               <<"e", "x", "i", "t">>, <<"q", "u", "i", "t">>}

\* ['exit', 'quit', 'bye']
ExitWords == {<<"e", "x", "i", "t">>, <<"q", "u", "i", "t">>, <<"b", "y", "e">>}

\* str(EOFError) of input() on a closed standard input
EOFErrorMsg == "EOF when reading a line"

RECURSIVE LStrip(_)
LStrip(s) == IF s # <<>> /\ s[1] = " " THEN LStrip(Tail(s)) ELSE s

RECURSIVE RStrip(_)
RStrip(s) == IF s # <<>> /\ s[Len(s)] = " " THEN RStrip(SubSeq(s, 1, Len(s) - 1)) ELSE s

\* str.strip()
Strip(s) == RStrip(LStrip(s))

RECURSIVE Join(_)
\* The characters of s as one string.
Join(s) == IF s = <<>> THEN "" ELSE s[1] \o Join(Tail(s))

\* The turn add_user_message appends at instant `now`.
UserTurn(message, now) ==
    [role |-> "user", content |-> message, timestamp |-> IsoFormat(now)]

\* The turn add_assistant_message appends at instant `now`.
AssistantTurn(message, api_response, now) ==
    [role |-> "assistant", content |-> message, api_response |-> api_response,
     timestamp |-> IsoFormat(now)]

\* f"Successfully executed {request.operation} operation."
ResultSummary(op) == "Successfully executed " \o op \o " operation."

\* f"Error executing {request.operation}: {response.error}"
ErrorMsg(op, error) ==
    "Error executing " \o op \o ": " \o (IF error = None THEN "None" ELSE error[1])

\* f"Error: {str(e)}"
ExceptMsg(msg) == "Error: " \o msg

\* The turn recorded for a response, and the value last_response takes.
RecordResponse(op, resp, now) ==
    IF resp.success
    THEN AssistantTurn(ResultSummary(op), resp.data, now)
    ELSE AssistantTurn(ErrorMsg(op, resp.error), None, now)

\* Lines 193-203: input() returns `line`. An exit word ends the loop; any
\* other query is appended as a user turn and process_nlp_request is called on
\* the context that holds it.
SessionInput(line) ==
    /\ session.pc = "input"
    /\ LET query == Strip(line) IN
       IF Lower(query) \in ExitWords
       THEN /\ session' = [session EXCEPT !.pc = "exited", !.line = line]
            /\ UNCHANGED <<context, tr, dispatcher>>
       ELSE /\ Len(messages) + 2 <= MaxSessionTurns
            /\ \E now \in clock..MaxClock :
                  LET history == Append(messages, UserTurn(Join(query), now)) IN
                  /\ clock' = now
                  /\ messages' = history
                  /\ tr' = CallFrame(Join(query), DefaultMaxRetries, history, last_response)
            /\ session' = [session EXCEPT !.pc = "translate", !.line = line]
            /\ UNCHANGED <<last_response, dispatcher>>

\* Line 193 with the standard input closed: input() raises EOFError, which
\* the handler of lines 231-233 records as an assistant turn; the loop then
\* reads again.
SessionInputEOF ==
    /\ session.pc = "input"
    /\ Len(messages) + 1 <= MaxSessionTurns
    /\ \E now \in clock..MaxClock :
          /\ clock' = now
          /\ messages' = Append(messages, AssistantTurn(ExceptMsg(EOFErrorMsg), None, now))
    /\ last_response' = None
    /\ session' = [session EXCEPT !.line = <<>>]
    /\ UNCHANGED <<tr, dispatcher>>

\* The handler of lines 231-233 leaving the loop instead of recording the error.
SessionTranslateFailedExits ==
    /\ session.pc = "translate"
    /\ tr.pc = "done"
    /\ tr.outcome[1].kind = "raise"
    /\ tr' = IdleFrame
    /\ session' = [session EXCEPT !.pc = "exited", !.last = "failed"]
    /\ UNCHANGED <<context, dispatcher>>

\* Line 203 raises the RuntimeError of process_nlp_request: lines 231-233
\* record it and the loop reads the next line.
SessionTranslateFailed ==
    /\ session.pc = "translate"
    /\ tr.pc = "done"
    /\ tr.outcome[1].kind = "raise"
    /\ \E now \in clock..MaxClock :
          /\ clock' = now
          /\ messages' = Append(messages,
                                AssistantTurn(ExceptMsg(tr.outcome[1].msg), None, now))
    /\ last_response' = None
    /\ tr' = IdleFrame
    /\ session' = [session EXCEPT !.pc = "input", !.last = "failed"]
    /\ UNCHANGED dispatcher

\* Lines 203-219: process_nlp_request returned a request; execute runs it and
\* the response is recorded as an assistant turn. Then the loop reads the
\* next line.
SessionExecute(o_user, o_tweets) ==
    /\ session.pc = "translate"
    /\ tr.pc = "done"
    /\ tr.outcome[1].kind = "return"
    /\ tr.outcome[1].value # None
    /\ LET req == tr.outcome[1].value[1]
           x == execute(user_id_cache, req.operation, req.params, o_user, o_tweets)
       IN  /\ user_id_cache' = x.cache
           /\ request' = Some(req)
           /\ result' = x.result
           /\ response' = x.response
           /\ api_calls' = x.calls
           /\ \E now \in clock..MaxClock :
                 LET turn == RecordResponse(req.operation, x.response[1], now) IN
                 /\ clock' = now
                 /\ messages' = Append(messages, turn)
                 /\ last_response' = turn.api_response
    /\ tr' = IdleFrame
    /\ session' = [session EXCEPT !.pc = "input", !.last = "executed"]

SessionInputAny == \E line \in InputLines : SessionInput(line)

SessionExecuteAny ==
    \E o_user \in UserOutcomes : \E o_tweets \in OtherOutcomes :
        SessionExecute(o_user, o_tweets)

SessionNext ==
    \/ SessionInputAny
    \/ SessionInputEOF
    \/ TranslateAttemptAny
    \/ TranslateSleep
    \/ SessionTranslateFailed
    \/ SessionExecuteAny

SessionSpec == Init /\ [][SessionNext]_vars

(***************************************************************************)
(* Properties of the Operation Dispatcher (checked under DispatcherSpec,   *)
(* where every step is one call of execute).                               *)
(***************************************************************************)
IsTwitterResponse(r) ==
    /\ DOMAIN r = {"success", "data", "error"}
    /\ r.success \in BOOLEAN
    /\ Len(r.data) <= 1
    /\ Len(r.error) <= 1

\* C1: execute never raises. Whatever the operation name, the params and the
\* behaviour of the API client, execute returns a TwitterResponse; and when an
\* API call raised, the response has success = false and error = the message
\* of that exception.
C1_ExecuteNeverRaises ==
    request # None =>
        /\ response # None
        /\ IsTwitterResponse(response[1])
        /\ \A i \in 1..Len(api_calls) :
              api_calls[i].out.raised =>
                  /\ response[1].success = FALSE
                  /\ response[1].error = Some(api_calls[i].out.msg)

\* C1 witness: a tweets request whose second API call (get_user_tweets) raised,
\* answered by a failure response.
C1_Witness ==
    /\ request # None /\ response # None
    /\ request[1].operation = "tweets"
    /\ Len(api_calls) = 2
    /\ api_calls[2].out.raised
    /\ response[1].success = FALSE

\* C2: for an operation name outside the eight known ones, execute returns
\* success = false with the error text "Unsupported operation: <name>", makes
\* no API call and leaves the identifier cache as it was.
C2_UnsupportedOperation ==
    [][(request' # None /\ request'[1].operation \notin Operations) =>
          /\ response' = Some([success |-> FALSE, data |-> None,
                               error |-> Some("Unsupported operation: "
                                              \o request'[1].operation)])
          /\ api_calls' = <<>>
          /\ user_id_cache' = user_id_cache]_vars

\* C2 witness: an unsupported operation was executed while the cache held an entry.
C2_Witness ==
    /\ request # None
    /\ request[1].operation = "retweet"
    /\ DOMAIN user_id_cache # {}
    /\ response[1].error = Some("Unsupported operation: retweet")

\* The request is a tweets request whose lowercased username is a key of `cache`.
TweetsOnCachedUser(req, cache) ==
    /\ req # None
    /\ req[1].operation = "tweets"
    /\ "username" \in DOMAIN req[1].params
    /\ req[1].params.username.t = "str"
    /\ Lower(req[1].params.username.v) \in DOMAIN cache

\* C3 (as claimed): a tweets request whose lowercased username is already a
\* key of the identifier cache, whatever identifier is stored there, makes no
\* get_user_info call.
C3_CachedUserNoLookup ==
    [][TweetsOnCachedUser(request', user_id_cache) =>
          \A i \in 1..Len(api_calls') : api_calls'[i].fn # "get_user_info"]_vars

\* The request is a user request that succeeded and whose result holds an
\* identifier under data.
UserSucceededWithId(req, res, resp) ==
    /\ req # None /\ res # None /\ resp # None
    /\ req[1].operation = "user"
    /\ resp[1].success
    /\ "data" \in DOMAIN res[1]
    /\ "id" \in DOMAIN res[1].data

\* C4 (as claimed): after a user request that succeeds and returns data holding
\* an identifier, the cache maps lowercase(username) to that identifier.
C4_UserCachedAlways ==
    [][UserSucceededWithId(request', result', response') =>
          LET key == Lower(request'[1].params.username.v) IN
          /\ key \in DOMAIN user_id_cache'
          /\ user_id_cache'[key] = result'[1].data.id]_vars

\* C4 (amended): after a user request with a non-empty username that succeeds
\* and returns data holding an identifier, the cache maps lowercase(username)
\* to that identifier and no other slot changed; every key of the cache is its
\* own lowercase form, so usernames that differ only in letter case share one
\* slot.
C4_UserCached ==
    [][(/\ UserSucceededWithId(request', result', response')
        /\ request'[1].params.username.v # <<>>) =>
          LET key == Lower(request'[1].params.username.v) IN
          /\ key \in DOMAIN user_id_cache'
          /\ user_id_cache'[key] = result'[1].data.id
          /\ DOMAIN user_id_cache' = DOMAIN user_id_cache \cup {key}
          /\ \A k \in DOMAIN user_id_cache : k # key => user_id_cache'[k] = user_id_cache[k]
          /\ \A k \in DOMAIN user_id_cache' : Lower(k) = k]_vars

\* C4 witness: a user request for 'Ab' succeeded and the slot 'ab' holds the
\* identifier returned, the only slot of the cache.
C4_Witness ==
    /\ UserSucceededWithId(request, result, response)
    /\ request[1].params.username = StrVal(<<"A", "b">>)
    /\ result[1].data.id = "44"
    /\ DOMAIN user_id_cache = {<<"a", "b">>}
    /\ user_id_cache[<<"a", "b">>] = "44"

\* C5 (as claimed): for a known operation whose handler returned a mapping, the
\* response is success = false, data = None, error = the mapping's error value
\* when the mapping holds an 'error' key, and success = true, data = the
\* mapping, error = None when it does not.
C5_ResultNormalized ==
    (request # None /\ request[1].operation \in Operations /\ result # None) =>
        LET res == result[1] IN
        IF "error" \in DOMAIN res
        THEN response = Some([success |-> FALSE, data |-> None, error |-> Some(res.error)])
        ELSE response = Some([success |-> TRUE, data |-> Some(res), error |-> None])

\* C6: every TwitterResponse execute returns has error absent when success is
\* true, and data absent and error set when success is false.
C6_ResponseShape ==
    response # None =>
        /\ response[1].success => response[1].error = None
        /\ ~response[1].success => (response[1].data = None /\ response[1].error # None)

\* C6 witness: a failure response that carries the error of an API result that
\* also held data.
C6_Witness ==
    /\ response # None /\ result # None
    /\ ~response[1].success
    /\ DOMAIN result[1] = {"error", "data"}
    /\ response[1].error = Some("not found")

(***************************************************************************)
(* Properties of the Translator (checked under TranslatorSpec) and of the  *)
(* Conversation Context (checked under ContextSpec).                       *)
(***************************************************************************)
\* The invocations of the model service made by the latest call, in order.
Chats == SelectSeq(tr.log, LAMBDA e : e.ev = "chat")

\* C7 (as claimed): the service is never invoked more than max_retries times;
\* a call whose k-th reply is the first valid one (k <= max_retries) succeeds
\* after exactly k invocations, and a call whose first max_retries replies are
\* all invalid fails after exactly max_retries invocations.
C7_RetryCount ==
    LET n == Len(Chats) IN
    /\ n <= tr.max_retries
    /\ tr.pc = "done" =>
          \/ /\ n >= 1
             /\ Chats[n].valid
             /\ \A i \in 1..(n - 1) : ~Chats[i].valid
             /\ tr.outcome[1].kind = "return"
             /\ tr.outcome[1].value # None
          \/ /\ \A i \in 1..n : ~Chats[i].valid
             /\ n = tr.max_retries
             /\ tr.outcome[1].kind = "raise"

\* C8 (as claimed): for every max_retries >= 0, a call that has ended either
\* returned a TwitterRequest (an operation and a params mapping) or raised; it
\* never completes normally without a TwitterRequest.
C8_RequestOrFailure ==
    tr.pc = "done" =>
        \/ /\ tr.outcome[1].kind = "return"
           /\ tr.outcome[1].value # None
           /\ DOMAIN tr.outcome[1].value[1] = {"operation", "params"}
        \/ tr.outcome[1].kind = "raise"

\* C9: process_nlp_request does not mutate the conversation context: every
\* step of a call leaves the turn sequence and last_response as they were, so
\* that when the call returns or fails, after any number of attempts, they
\* are what they were when it was called.
C9_ContextNotMutated ==
    [][tr' # tr =>
          /\ messages' = messages
          /\ last_response' = last_response
          /\ messages' = tr'.context.messages
          /\ last_response' = tr'.context.last_response]_vars

\* C9 witness: a call on a context of two turns with a last response failed
\* after three attempts.
C9_Witness ==
    /\ tr.pc = "done"
    /\ tr.outcome[1].kind = "raise"
    /\ Len(Chats) = 3
    /\ Len(messages) = 2
    /\ last_response # None
    /\ messages = tr.context.messages

\* The step appended exactly one turn of the given role at the end.
AppendedTurn(role) ==
    /\ Len(messages') = Len(messages) + 1
    /\ SubSeq(messages', 1, Len(messages)) = messages
    /\ messages'[Len(messages')].role = role

\* C10: the context is append-only: every add_user_message call appends
\* exactly one user turn at the end, every add_assistant_message call exactly
\* one assistant turn, and every turn appended before keeps its position and
\* content.
C10_AppendOnly ==
    [][/\ AddUserMessageAny => AppendedTurn("user")
       /\ AddAssistantMessageAny => AppendedTurn("assistant")
       /\ \A i \in 1..Len(messages) :
             i <= Len(messages') /\ messages'[i] = messages[i]]_vars

\* C10 witness: three turns appended, user, assistant, user.
C10_Witness ==
    /\ Len(messages) = 3
    /\ messages[1].role = "user"
    /\ messages[2].role = "assistant"
    /\ messages[3].role = "user"


\* The positions of the assistant turns of the history.
AssistantTurns == {i \in 1..Len(messages) : messages[i].role = "assistant"}

\* C11: last_response is the api_response of the most recent assistant turn
\* (None before any assistant turn), also when that turn was added with no
\* api_response after an earlier one had set it; add_user_message, which adds
\* no assistant turn, therefore leaves it as it was.
C11_LastResponse ==
    IF AssistantTurns = {}
    THEN last_response = None
    ELSE LET latest == CHOOSE i \in AssistantTurns : \A j \in AssistantTurns : j <= i
         IN  last_response = messages[latest].api_response

\* C11 witness: an assistant turn set last_response, a later one added with
\* no api_response cleared it, and a user turn followed.
C11_Witness ==
    /\ Len(messages) = 3
    /\ messages[1].role = "assistant" /\ messages[1].api_response # None
    /\ messages[2].role = "assistant" /\ messages[2].api_response = None
    /\ messages[3].role = "user"
    /\ last_response = None

\* The request is a tweets request with a str username whose lowercase form
\* is not a key of `cache`.
TweetsOnUncachedUser(req, cache) ==
    /\ req # None
    /\ req[1].operation = "tweets"
    /\ "username" \in DOMAIN req[1].params
    /\ req[1].params.username.t = "str"
    /\ Lower(req[1].params.username.v) \notin DOMAIN cache

\* The first API call of `calls` is a get_user_info call that returned a
\* mapping holding an 'error' key.
LookupReturnedError(calls) ==
    /\ calls # <<>>
    /\ calls[1].fn = "get_user_info"
    /\ ~calls[1].out.raised
    /\ "error" \in DOMAIN calls[1].out.value

\* C12: for a tweets request on an uncached username whose inline user lookup
\* returns a mapping with an 'error' key, execute returns success = false with
\* that same error value, never calls get_user_tweets, and leaves the
\* identifier cache unchanged.
C12_LookupErrorPropagated ==
    [][(TweetsOnUncachedUser(request', user_id_cache) /\ LookupReturnedError(api_calls')) =>
          /\ response' = Some([success |-> FALSE, data |-> None,
                               error |-> Some(api_calls'[1].out.value.error)])
          /\ \A i \in 1..Len(api_calls') : api_calls'[i].fn # "get_user_tweets"
          /\ user_id_cache' = user_id_cache]_vars

\* C12 witness: with an entry in the cache, a tweets request for another,
\* uncached username met a lookup error that also carried data.
C12_Witness ==
    /\ request # None /\ response # None
    /\ request[1].operation = "tweets"
    /\ "username" \in DOMAIN request[1].params
    /\ request[1].params.username = StrVal(<<"b">>)
    /\ DOMAIN user_id_cache = {<<"a", "b">>}
    /\ LookupReturnedError(api_calls)
    /\ "data" \in DOMAIN api_calls[1].out.value
    /\ response[1].error = Some("not found")

\* C13 (as claimed): the identifier cache is never evicted or invalidated: no
\* execute call removes a key, and a call that returns success = false leaves
\* every entry that existed before it mapped to the same identifier.
C13_CacheNeverInvalidated ==
    [][/\ DOMAIN user_id_cache \subseteq DOMAIN user_id_cache'
       /\ (response' # None /\ ~response'[1].success) =>
             \A k \in DOMAIN user_id_cache : user_id_cache'[k] = user_id_cache[k]]_vars

\* The parameter each operation kind requires (timeline requires none).
RequiredKey(op) ==
    CASE op \in {"user", "tweets"} -> "username"
      [] op = "search" -> "query"
      [] op = "post" -> "text"
      [] op \in {"like", "unlike", "delete"} -> "tweet_id"

\* The request is of a kind with a required parameter, and lacks it.
LacksRequiredKey(req) ==
    /\ req # None
    /\ req[1].operation \in Operations \ {"timeline"}
    /\ RequiredKey(req[1].operation) \notin DOMAIN req[1].params

\* C14: an execute call whose params lack the required key of its operation
\* kind returns success = false with a non-empty error, makes no API call and
\* leaves the identifier cache unchanged.
C14_MissingRequiredKey ==
    [][LacksRequiredKey(request') =>
          /\ response' # None
          /\ response'[1].success = FALSE
          /\ response'[1].error # None
          /\ response'[1].error[1] # ""
          /\ api_calls' = <<>>
          /\ user_id_cache' = user_id_cache]_vars

\* C14 witness: with an entry in the cache, a like request without tweet_id
\* was answered with the KeyError's text.
C14_Witness ==
    /\ request # None /\ response # None
    /\ request[1].operation = "like"
    /\ request[1].params = EmptyDict
    /\ DOMAIN user_id_cache # {}
    /\ response[1].error = Some("'tweet_id'")

\* C17: the message sequence passed to the model service is the system
\* instruction first, then every turn of the context in its order, then one
\* user-role message embedding the query last; and every attempt of the call
\* passes this same sequence.
C17_MessageSequence ==
    \A i \in 1..Len(Chats) :
        LET sent == Chats[i].messages
            n == Len(tr.context.messages)
        IN  /\ Len(sent) = n + 2
            /\ sent[1].role = "system"
            /\ sent[1] = SystemContext
            /\ SubSeq(sent, 2, n + 1) = tr.context.messages
            /\ sent[n + 2] =
                  [role |-> "user",
                   content |-> "Convert this query to a Twitter API request (considering previous context if relevant): "
                               \o tr.query]
            /\ sent = Chats[1].messages

\* C17 witness: three attempts were made on a context of two turns.
C17_Witness ==
    /\ Len(Chats) = 3
    /\ Len(tr.context.messages) = 2
    /\ tr.context.messages[1].role = "user"
    /\ tr.context.messages[2].role = "assistant"
    /\ Len(Chats[3].messages) = 4

\* The delays of the current call that have completed.
Sleeps == SelectSeq(tr.log, LAMBDA e : e.ev = "sleep")

\* Where the delays of a call stand among its model invocations: the events
\* alternate invocation, delay, invocation, ... starting with an invocation;
\* a delay follows a failed invocation that was not the last permitted one; a
\* successful invocation and the last permitted invocation end the call with
\* no delay after them; a failed invocation before the last permitted one is
\* followed by a delay (completed, or in progress).
DelaysBetweenAttempts ==
    LET n == Len(tr.log) IN
    /\ \A i \in 1..n : tr.log[i].ev = (IF i % 2 = 1 THEN "chat" ELSE "sleep")
    /\ \A i \in 1..n : tr.log[i].ev = "sleep" =>
          /\ ~tr.log[i - 1].valid
          /\ i \div 2 < tr.max_retries
    /\ \A i \in 1..n : tr.log[i].ev = "chat" =>
          IF tr.log[i].valid \/ (i + 1) \div 2 = tr.max_retries
          THEN i = n /\ tr.pc = "done"
          ELSE i < n \/ tr.pc = "sleep"
    /\ tr.pc = "sleep" => n > 0 /\ tr.log[n].ev = "chat"
    /\ tr.pc = "attempt" => n = 0 \/ tr.log[n].ev = "sleep"
    /\ tr.pc = "done" => n = 0 \/ tr.log[n].ev = "chat"

\* C18 as stated: the delays of translate occur only between attempts, and
\* when the call has ended the number of delays is the number of model
\* invocations minus one.
C18_DelaysBetweenAttemptsAlways ==
    /\ DelaysBetweenAttempts
    /\ tr.pc = "done" => Len(Sleeps) = Len(Chats) - 1

\* C18, amended: the delays of translate occur only between attempts, and when
\* the call has ended the number of delays is the number of model invocations
\* minus one if the model was invoked at all, and zero if it was not.
C18_DelaysBetweenAttempts ==
    /\ DelaysBetweenAttempts
    /\ tr.pc = "done" =>
          Len(Sleeps) = (IF Len(Chats) > 0 THEN Len(Chats) - 1 ELSE 0)

\* C18 witness: a call that failed on its third and last permitted attempt
\* after two delays.
C18_Witness ==
    /\ tr.pc = "done"
    /\ tr.max_retries = 3
    /\ Len(Chats) = 3
    /\ Len(Sleeps) = 2
    /\ tr.outcome # None /\ tr.outcome[1].kind = "raise"

\* The first API call of `calls` is a get_user_info call that returned a
\* mapping without an 'error' key, holding an identifier under data.
LookupSucceededWithId(calls) ==
    /\ calls # <<>>
    /\ calls[1].fn = "get_user_info"
    /\ ~calls[1].out.raised
    /\ "error" \notin DOMAIN calls[1].out.value
    /\ "data" \in DOMAIN calls[1].out.value
    /\ "id" \in DOMAIN calls[1].out.value.data

\* The get_user_tweets calls among `calls`.
TweetsCalls(calls) == SelectSeq(calls, LAMBDA c : c.fn = "get_user_tweets")

\* C19 (as claimed): a tweets request on an uncached username whose inline
\* user lookup succeeds with identifier i leaves the cache mapping
\* lowercase(username) to i, whatever the get_user_tweets call then does, and
\* calls get_user_tweets exactly once with i and params.limit, or 10 when
\* limit is absent; a tweets request on a cached username calls
\* get_user_tweets with the cached identifier.
C19_TweetsLookupArguments ==
    [][/\ (TweetsOnUncachedUser(request', user_id_cache) /\ LookupSucceededWithId(api_calls')) =>
             LET i == api_calls'[1].out.value.data.id
                 p == request'[1].params
                 username == Lower(p.username.v)
             IN  /\ username \in DOMAIN user_id_cache'
                 /\ user_id_cache'[username] = i
                 /\ Len(TweetsCalls(api_calls')) = 1
                 /\ TweetsCalls(api_calls')[1].args =
                       <<i, IF "limit" \in DOMAIN p THEN p.limit ELSE 10>>
       /\ TweetsOnCachedUser(request', user_id_cache) =>
             /\ Len(TweetsCalls(api_calls')) = 1
             /\ TweetsCalls(api_calls')[1].args[1] =
                   user_id_cache[Lower(request'[1].params.username.v)]]_vars

\* The call is a get_user_info call that succeeded, for a username whose
\* lowercase form is `key`, and returned the identifier `id`.
SuccessfulLookupOf(call, key, id) ==
    /\ call.fn = "get_user_info"
    /\ ~call.out.raised
    /\ "error" \notin DOMAIN call.out.value
    /\ "data" \in DOMAIN call.out.value
    /\ "id" \in DOMAIN call.out.value.data
    /\ call.out.value.data.id = id
    /\ call.args[1].t = "str"
    /\ Lower(call.args[1].v) = key

\* C20: cache provenance. The cache starts empty, and every execute call
\* leaves each entry it adds or changes under a key that is a lowercased
\* username, holding the identifier that a successful get_user_info call of
\* that execute returned for a username whose lowercase form is the key; so
\* every entry of every reachable cache has that origin. Operations other
\* than user and tweets never change the cache.
C20_CacheProvenance ==
    /\ DOMAIN user_id_cache = {}
    /\ [][/\ \A k \in DOMAIN user_id_cache' :
                (k \notin DOMAIN user_id_cache \/ user_id_cache'[k] # user_id_cache[k]) =>
                    /\ Lower(k) = k
                    /\ \E j \in 1..Len(api_calls') :
                          SuccessfulLookupOf(api_calls'[j], k, user_id_cache'[k])
          /\ request'[1].operation \notin {"user", "tweets"} =>
                user_id_cache' = user_id_cache]_vars

\* C20 witness: a tweets request typed with an upper-case letter has just
\* added the entry of its lowercased username, next to an older entry.
C20_Witness ==
    /\ request # None
    /\ request[1].operation = "tweets"
    /\ "username" \in DOMAIN request[1].params
    /\ request[1].params.username = StrVal(<<"A", "b">>)
    /\ DOMAIN user_id_cache = {<<"a", "b">>, <<"b">>}
    /\ Len(api_calls) = 2
    /\ SuccessfulLookupOf(api_calls[1], <<"a", "b">>, user_id_cache[<<"a", "b">>])

(***************************************************************************)
(* Properties of the session loop (checked under SessionSpec).             *)
(***************************************************************************)
\* C15: the session never ends because of a bad query. When translation has
\* failed after its last retry, the loop appends an assistant turn holding the
\* error and goes back to reading a line; when the request was executed, the
\* loop goes back to reading a line, having recorded the error in an assistant
\* turn if the response is a failure; and the loop ends only from reading a
\* line that is an exit, quit or bye command.
C15_SessionSurvivesBadQuery ==
    [][/\ (session.pc = "translate" /\ tr.pc = "done" /\ tr.outcome[1].kind = "raise") =>
             /\ session'.pc = "input"
             /\ Len(messages') = Len(messages) + 1
             /\ messages'[Len(messages')].role = "assistant"
             /\ messages'[Len(messages')].content = "Error: " \o tr.outcome[1].msg
       /\ (session.pc = "translate" /\ tr.pc = "done" /\ tr.outcome[1].kind = "return") =>
             /\ session'.pc = "input"
             /\ response' # None
             /\ ~response'[1].success =>
                   /\ Len(messages') = Len(messages) + 1
                   /\ messages'[Len(messages')].role = "assistant"
                   /\ messages'[Len(messages')].content =
                         "Error executing " \o request'[1].operation \o ": "
                         \o response'[1].error[1]
       /\ (session'.pc = "exited" /\ session.pc # "exited") =>
             /\ session.pc = "input"
             /\ session'.line \in {<<"e", "x", "i", "t">>, <<"q", "u", "i", "t">>,
                                   <<" ", "B", "y", "e", " ">>}]_vars

\* C15 witness: the session is reading its next line after a query that the
\* dispatcher failed and a query whose translation failed on every attempt.
C15_Witness ==
    /\ session.pc = "input"
    /\ Len(messages) = 4
    /\ messages[2].content = "Error executing retweet: Unsupported operation: retweet"
    /\ messages[4].content =
          "Error: Failed to process NLP request after 3 attempts: connection refused"

\* C16 (as claimed): every loop iteration that does not exit appends one user
\* turn and then one assistant turn, so the turns alternate user, assistant,
\* user, assistant, ..., every query is fully recorded when the next line is
\* read, and last_response then holds the outcome of the latest query: the
\* data of its response when it succeeded, nothing when it failed.
C16_StrictAlternation ==
    /\ \A i \in 1..Len(messages) :
          messages[i].role = (IF i % 2 = 1 THEN "user" ELSE "assistant")
    /\ session.pc \in {"input", "exited"} => Len(messages) % 2 = 0
    /\ session.pc = "translate" => Len(messages) % 2 = 1
    /\ (session.pc \in {"input", "exited"} /\ session.last = "executed") =>
          last_response = (IF response[1].success THEN response[1].data ELSE None)
    /\ (session.pc \in {"input", "exited"} /\ session.last = "failed") =>
          last_response = None
====
